---------------------------- MODULE Spec2Model ----------------------------
(***************************************************************************)
(* Model of the RegressionErrorBiasTable migration adapter                 *)
(* (MIGRATION_EXAMPLE_ERROR_BIAS_TABLE.py) driven by the report smoke test *)
(* (test_issue_1805.py).                                                   *)
(*                                                                         *)
(* Two metric calculations are driven, step by step and in any             *)
(* interleaving, under one execution context: they stand for two metrics   *)
(* of one report as well as for two runs of the same report.  The steps of *)
(* one calculation are, in the order LegacyMetricCalculation drives them:  *)
(*   legacy_metric()  ->  _gen_input_data()  ->  legacy engine             *)
(*                    ->  calculate_value() + get_additional_widgets()     *)
(*                                                                         *)
(* Python values are modelled as follows:                                  *)
(*   Optional[T]     None is <<>>, a present value x is Some(x) = <<x>>     *)
(*   float x         the record [float |-> n]; a top_error is kept in      *)
(*                   hundredths (0.1 is 10, 0.5 is 50)                     *)
(*   List[str]       a sequence of strings                                 *)
(*   Dict (ordered)  a sequence of <<key, value>> pairs with distinct keys,*)
(*                   in insertion (= iteration) order                      *)
(*   raise E         the record [ok |-> FALSE, error |-> E]                *)
(***************************************************************************)
EXTENDS Integers, Sequences, FiniteSets, TLC

VARIABLES context, metric, pc, legacy_request, input_data, legacy_result,
          render, published, error

vars == <<context, metric, pc, legacy_request, input_data, legacy_result,
          render, published, error>>

None == <<>>

Some(x) == <<x>>

\* The value of a present optional.
Get(o) == o[1]

\* The two calculations in flight.
Calcs == {"c1", "c2"}

\* Largest value of one bias statistic the legacy engine reports (1..MaxStat).
MaxStat == 2

----------------------------------------------------------------------------
(* Data of the smoke test                                                  *)

\* Feature columns of the current/reference tables.
Features == {"age", "income"}

\* Column selections the declarations are built with.
ColumnSelections == {None, Some(<<"age">>), Some(<<"age", "income">>)}

\* top_error values in hundredths: absent, 0.1, and two values outside [0, 0.5].
TopErrors == {None, Some(-10), Some(10), Some(60)}

\* Regression task names a declaration may carry.
TaskNames == {"default", "pricing_model"}

\* Target/prediction columns each task would be registered with.
TaskColumns ==
    [t \in TaskNames |->
        IF t = "default"
        THEN [target |-> "target", prediction |-> "prediction"]
        ELSE [target |-> "price", prediction |-> "price_prediction"]]

\* Data definitions: which regression tasks were registered.
Registrations == {{}, {"default"}, {"default", "pricing_model"}}

\* Execution contexts: the registered tasks and whether reference data was given.
Contexts ==
    {[tasks |-> [t \in reg |-> TaskColumns[t]], reference |-> ref] :
        reg \in Registrations, ref \in {None, Some("reference")}}

----------------------------------------------------------------------------
(* The metric declaration                                                  *)

RegressionErrorBiasTable ==
    [regression_name : TaskNames,
     columns : ColumnSelections,
     top_error : TopErrors]

\* The adapter object bound to a declaration (self.metric).
Calculation(m) == [metric |-> m]

----------------------------------------------------------------------------
(* External collaborators                                                  *)

float(n) == [float |-> n]

Raise(e) == [ok |-> FALSE, error |-> e]

Return(v) == [ok |-> TRUE, val |-> v]

\* The legacy metric's constructor: rejects a threshold outside [0, 0.5].
LegacyRegressionErrorBiasTable(columns, top_error) ==
    IF top_error # None /\ (Get(top_error) < 0 \/ Get(top_error) > 50)
    THEN Raise("InvalidParameter")
    ELSE Return([columns |-> columns, top_error |-> top_error])

\* The regression helper: the columns registered under task_name.
_gen_regression_input_data(ctx, task_name) ==
    IF task_name \in DOMAIN ctx.tasks
    THEN Return(ctx.tasks[task_name])
    ELSE Raise("TaskNotFound")

\* Sequences over S without repetition, of every length.
RECURSIVE Arrangements(_)
Arrangements(S) ==
    {<<>>} \cup UNION {{<<x>> \o a : a \in Arrangements(S \ {x})} : x \in S}

RECURSIVE Range(_)
Range(s) == IF s = <<>> THEN {} ELSE {Head(s)} \cup Range(Tail(s))

\* The features the legacy engine analyses for a request.
Analysed(request) ==
    IF request.columns = None THEN Features ELSE Range(Get(request.columns))

\* Every error_bias mapping the legacy engine may return for a request.
ErrorBiasMappings(request) ==
    UNION {{[i \in 1..Len(keys) |-> <<keys[i], stats[i]>>] :
                stats \in [1..Len(keys) -> 1..MaxStat]} :
            keys \in Arrangements(Analysed(request))}

\* The legacy results the engine may return: error_bias absent or a mapping.
LegacyResults(request) ==
    {[error_bias |-> eb] :
        eb \in {None} \cup {Some(m) : m \in ErrorBiasMappings(request)}}

\* The legacy renderer: a header, then one widget per analysed entry.
LegacyRender(result) ==
    IF result.error_bias = None
    THEN <<"header">>
    ELSE <<"header">> \o [i \in 1..Len(Get(result.error_bias)) |->
                              Get(result.error_bias)[i][1]]

\* MetricCalculation.result: wraps a value into a SingleValue.
result(self, value, name) == [value |-> value, display_name |-> name]

\* The render sequence is attached to the published result as it is.
forward_render_artifacts(legacy_render) == legacy_render

----------------------------------------------------------------------------
(* The adapter: RegressionErrorBiasTableCalculation                        *)

\* Python's len of a list or of a dict.
len(d) == Len(d)

\* Variant: top_error is not forwarded to the legacy metric.
legacy_metric_drops_top_error(self) ==
    LegacyRegressionErrorBiasTable(self.metric.columns, None)

\* Variant: the adapter validates the threshold itself and clamps it into range.
legacy_metric_clamped(self) ==
    LET t == self.metric.top_error
        clamped == IF t = None THEN None
                   ELSE IF Get(t) < 0 THEN Some(0)
                   ELSE IF Get(t) > 50 THEN Some(50)
                   ELSE t
    IN  LegacyRegressionErrorBiasTable(self.metric.columns, clamped)

legacy_metric(self) ==
    LegacyRegressionErrorBiasTable(self.metric.columns, self.metric.top_error)

task_name(self) == self.metric.regression_name

display_name(self) == "Regression Error Bias Table"

\* Variant: the widgets of the render are counted instead of the entries.
calculate_value_counts_widgets(self, ctx, legacy, rnd) ==
    LET value ==
            IF legacy.error_bias = None \/ len(Get(legacy.error_bias)) = 0
            THEN float(0)
            ELSE float(len(rnd))
    IN  result(self, value, display_name(self))

\* Variant: an absent mapping is published as the sentinel -1.0.
calculate_value_sentinel(self, ctx, legacy, rnd) ==
    LET value ==
            IF legacy.error_bias = None
            THEN float(-1)
            ELSE float(len(Get(legacy.error_bias)))
    IN  result(self, value, display_name(self))

\* Variant: without reference data nothing is counted.
calculate_value_needs_reference(self, ctx, legacy, rnd) ==
    LET value ==
            IF \/ legacy.error_bias = None
               \/ len(Get(legacy.error_bias)) = 0
               \/ ctx.reference = None
            THEN float(0)
            ELSE float(len(Get(legacy.error_bias)))
    IN  result(self, value, display_name(self))

calculate_value(self, ctx, legacy, rnd) ==
    LET value ==
            IF legacy.error_bias = None \/ len(Get(legacy.error_bias)) = 0
            THEN float(0)
            ELSE float(len(Get(legacy.error_bias)))
    IN  result(self, value, display_name(self))

\* Variant: the task name is dropped and the default task is resolved.
_gen_input_data_default_task(self, ctx, name) ==
    _gen_regression_input_data(ctx, "default")

_gen_input_data(self, ctx, name) == _gen_regression_input_data(ctx, name)

\* Variant: the adapter adds a widget of its own.
get_additional_widgets_extra(self, ctx) == <<"extra">>

get_additional_widgets(self, ctx) == <<>>

----------------------------------------------------------------------------
(* The report driving the calculations                                     *)

Terminal == {"published", "failed"}

\* Variant: the first failure aborts the run for every metric.
DrivenUntilFailure(c) ==
    /\ pc[c] \notin Terminal
    /\ \A d \in Calcs : pc[d] # "failed"

\* Fan-out: a calculation is driven until it has published or failed,
\* whatever its siblings did.
Driven(c) == pc[c] \notin Terminal

\* A failure is recorded with the identity of the metric it belongs to.
Failure(c, e) == Some([type |-> e, metric |-> metric[c]])

\* A published result as the snapshot keeps it.
get_metric_result(c) == Get(published[c])

Init ==
    /\ context \in Contexts
    /\ metric \in [Calcs -> RegressionErrorBiasTable]
    /\ pc = [c \in Calcs |-> "declared"]
    /\ legacy_request = [c \in Calcs |-> None]
    /\ input_data = [c \in Calcs |-> None]
    /\ legacy_result = [c \in Calcs |-> None]
    /\ render = [c \in Calcs |-> <<>>]
    /\ published = [c \in Calcs |-> None]
    /\ error = [c \in Calcs |-> None]

\* Variant: an absent top_error is written back into the declaration as 0.05.
LegacyMetricStepDefaulting(c) ==
    /\ Driven(c)
    /\ pc[c] = "declared"
    /\ LET r == legacy_metric(Calculation(metric[c]))
       IN  IF r.ok
           THEN /\ legacy_request' = [legacy_request EXCEPT ![c] = Some(r.val)]
                /\ pc' = [pc EXCEPT ![c] = "requested"]
                /\ UNCHANGED error
           ELSE /\ error' = [error EXCEPT ![c] = Failure(c, r.error)]
                /\ pc' = [pc EXCEPT ![c] = "failed"]
                /\ UNCHANGED legacy_request
    /\ metric' = [metric EXCEPT ![c].top_error =
                     IF @ = None THEN Some(5) ELSE @]
    /\ UNCHANGED <<context, input_data, legacy_result, render, published>>

\* self.legacy_metric(): the legacy request is built, or its constructor raises.
LegacyMetricStep(c) ==
    /\ Driven(c)
    /\ pc[c] = "declared"
    /\ LET r == legacy_metric(Calculation(metric[c]))
       IN  IF r.ok
           THEN /\ legacy_request' = [legacy_request EXCEPT ![c] = Some(r.val)]
                /\ pc' = [pc EXCEPT ![c] = "requested"]
                /\ UNCHANGED error
           ELSE /\ error' = [error EXCEPT ![c] = Failure(c, r.error)]
                /\ pc' = [pc EXCEPT ![c] = "failed"]
                /\ UNCHANGED legacy_request
    /\ UNCHANGED <<context, metric, input_data, legacy_result, render, published>>

\* self._gen_input_data(context, self.task_name()): the task's columns, or a raise.
GenInputDataStep(c) ==
    /\ Driven(c)
    /\ pc[c] = "requested"
    /\ LET self == Calculation(metric[c])
           r == _gen_input_data(self, context, task_name(self))
       IN  IF r.ok
           THEN /\ input_data' = [input_data EXCEPT ![c] = Some(r.val)]
                /\ pc' = [pc EXCEPT ![c] = "resolved"]
                /\ UNCHANGED error
           ELSE /\ error' = [error EXCEPT ![c] = Failure(c, r.error)]
                /\ pc' = [pc EXCEPT ![c] = "failed"]
                /\ UNCHANGED input_data
    /\ UNCHANGED <<context, metric, legacy_request, legacy_result, render, published>>

\* The legacy engine computes the request: a legacy result and its render.
LegacyEngineStep(c) ==
    /\ Driven(c)
    /\ pc[c] = "resolved"
    /\ \E lr \in LegacyResults(Get(legacy_request[c])) :
            /\ legacy_result' = [legacy_result EXCEPT ![c] = Some(lr)]
            /\ render' = [render EXCEPT ![c] = LegacyRender(lr)]
    /\ pc' = [pc EXCEPT ![c] = "computed"]
    /\ UNCHANGED <<context, metric, legacy_request, input_data, published, error>>

\* Variant: the adapter keeps a tally of what was published before and adds it.
CalculateValueStepRetaining(c) ==
    /\ Driven(c)
    /\ pc[c] = "computed"
    /\ LET self == Calculation(metric[c])
           value == calculate_value(self, context, Get(legacy_result[c]), render[c])
           before == Cardinality({d \in Calcs : pc[d] = "published"})
           widgets == forward_render_artifacts(render[c])
                          \o get_additional_widgets(self, context)
       IN  published' = [published EXCEPT
                            ![c] = Some([current |->
                                            [value EXCEPT !.value =
                                                float(value.value.float + before)],
                                         widgets |-> widgets])]
    /\ pc' = [pc EXCEPT ![c] = "published"]
    /\ UNCHANGED <<context, metric, legacy_request, input_data, legacy_result,
                   render, error>>

\* self.calculate_value(context, legacy_result, render), then the widgets:
\* the legacy render followed by self.get_additional_widgets(context).
CalculateValueStep(c) ==
    /\ Driven(c)
    /\ pc[c] = "computed"
    /\ LET self == Calculation(metric[c])
           value == calculate_value(self, context, Get(legacy_result[c]), render[c])
           widgets == forward_render_artifacts(render[c])
                          \o get_additional_widgets(self, context)
       IN  published' = [published EXCEPT
                            ![c] = Some([current |-> value, widgets |-> widgets])]
    /\ pc' = [pc EXCEPT ![c] = "published"]
    /\ UNCHANGED <<context, metric, legacy_request, input_data, legacy_result,
                   render, error>>

Next ==
    \E c \in Calcs :
        \/ LegacyMetricStep(c)
        \/ GenInputDataStep(c)
        \/ LegacyEngineStep(c)
        \/ CalculateValueStep(c)

Spec == Init /\ [][Next]_vars

----------------------------------------------------------------------------
(* Properties                                                              *)

\* Number of entries of the error_bias mapping a calculation received.
Entries(c) ==
    LET eb == Get(legacy_result[c]).error_bias
    IN  IF eb = None THEN 0 ELSE Len(Get(eb))

\* The keys of the error_bias mapping a calculation received, in order.
Keys(c) ==
    LET eb == Get(legacy_result[c]).error_bias
    IN  IF eb = None THEN <<>> ELSE [i \in 1..Len(Get(eb)) |-> Get(eb)[i][1]]

InvalidThreshold(c) ==
    /\ metric[c].top_error # None
    /\ Get(metric[c].top_error) < 0 \/ Get(metric[c].top_error) > 50

Registered(c) == metric[c].regression_name \in DOMAIN context.tasks

\* No calculation is driven any more: the run is over.
Stopped == \A c \in Calcs : ~Driven(c)

\* C1: calculate_value publishes exactly 0.0 when error_bias is absent or
\* empty and float(N) for a mapping of N entries, so two results with the
\* same number of entries publish the same value whatever their keys,
\* contents and order.
C1_ReduceIsEntryCount ==
    /\ \A c \in Calcs :
          pc[c] = "published" =>
              get_metric_result(c).current.value = float(Entries(c))
    /\ \A c, d \in Calcs :
          pc[c] = "published" /\ pc[d] = "published" /\ Entries(c) = Entries(d) =>
              get_metric_result(c).current.value = get_metric_result(d).current.value

\* C1 witness: two mappings of two entries, in opposite key order and with
\* different contents, both published as 2.0.
C1_Witness ==
    /\ pc["c1"] = "published" /\ pc["c2"] = "published"
    /\ Keys("c1") = <<"age", "income">> /\ Keys("c2") = <<"income", "age">>
    /\ legacy_result["c1"] # legacy_result["c2"]
    /\ Get(Get(legacy_result["c1"]).error_bias)[1][2]
           # Get(Get(legacy_result["c2"]).error_bias)[2][2]
    /\ get_metric_result("c1").current.value = float(2)
    /\ get_metric_result("c2").current.value = float(2)

C3_PublishedNonNegative ==
    \A c \in Calcs :
        /\ pc[c] = "published" =>
              /\ DOMAIN get_metric_result(c).current.value = {"float"}
              /\ get_metric_result(c).current.value.float >= 0
        /\ pc[c] = "failed" => InvalidThreshold(c) \/ ~Registered(c)

\* C3 witness: columns=['age'] and columns=['age','income'] both published,
\* the first from an absent mapping.
C3_Witness ==
    /\ metric["c1"].columns = Some(<<"age">>)
    /\ metric["c2"].columns = Some(<<"age", "income">>)
    /\ pc["c1"] = "published" /\ pc["c2"] = "published"
    /\ Get(legacy_result["c1"]).error_bias = None
    /\ get_metric_result("c1").current.value.float >= 0
    /\ get_metric_result("c2").current.value.float >= 0

C4_WitnessNotFound ==
    /\ metric["c1"].regression_name = "pricing_model"
    /\ "default" \in DOMAIN context.tasks
    /\ pc["c1"] = "failed"
    /\ Get(error["c1"]).type = "TaskNotFound"

\* C5: the legacy request carries the declaration's columns and top_error
\* (None stays None) and no other field, and building it leaves the
\* declaration as it was.
C5_LegacyRequestMapping ==
    /\ [](\A c \in Calcs :
            legacy_request[c] # None =>
                /\ DOMAIN Get(legacy_request[c]) = {"columns", "top_error"}
                /\ Get(legacy_request[c]).columns = metric[c].columns
                /\ Get(legacy_request[c]).top_error = metric[c].top_error)
    /\ [][metric' = metric]_vars

\* C5 witness: columns=['age','income'], top_error=0.1 was built next to a
\* declaration without columns and top_error.
C5_Witness ==
    /\ metric["c1"].columns = Some(<<"age", "income">>)
    /\ metric["c1"].top_error = Some(10)
    /\ metric["c2"].columns = None
    /\ metric["c2"].top_error = None
    /\ legacy_request["c1"] = Some([columns |-> Some(<<"age", "income">>),
                                    top_error |-> Some(10)])
    /\ legacy_request["c2"] = Some([columns |-> None, top_error |-> None])

\* C6: a declaration whose top_error lies outside [0, 0.5] is accepted, the
\* value reaches the legacy metric as it is, the calculation fails with the
\* legacy InvalidParameter and nothing is published for it.
C6_InvalidThresholdPropagates ==
    \A c \in Calcs :
        InvalidThreshold(c) =>
            /\ pc[c] \in {"declared", "failed"}
            /\ pc[c] = "failed" =>
                  error[c] = Some([type |-> "InvalidParameter", metric |-> metric[c]])
            /\ legacy_request[c] = None
            /\ published[c] = None

\* C6 witness: top_error=0.6 and top_error=-0.1 both failed with InvalidParameter.
C6_Witness ==
    /\ metric["c1"].top_error = Some(60)
    /\ metric["c2"].top_error = Some(-10)
    /\ pc["c1"] = "failed" /\ pc["c2"] = "failed"
    /\ Get(error["c1"]).type = "InvalidParameter"
    /\ Get(error["c2"]).type = "InvalidParameter"
    /\ published["c1"] = None

\* C7: when the run is over every metric has either published or failed with
\* its own error, recorded with its own identity: a failure of one metric
\* keeps no sibling from publishing.
C7_SiblingsUnaffected ==
    Stopped =>
        \A c \in Calcs :
            IF InvalidThreshold(c)
            THEN /\ pc[c] = "failed"
                 /\ error[c] = Some([type |-> "InvalidParameter", metric |-> metric[c]])
            ELSE IF ~Registered(c)
            THEN /\ pc[c] = "failed"
                 /\ error[c] = Some([type |-> "TaskNotFound", metric |-> metric[c]])
            ELSE /\ pc[c] = "published"
                 /\ error[c] = None

\* C7 witness: one metric failed before its sibling took a step, and the
\* sibling published.
C7_Witness ==
    /\ Stopped
    /\ pc["c1"] = "failed"
    /\ Get(error["c1"]).metric = metric["c1"]
    /\ metric["c1"] # metric["c2"]
    /\ pc["c2"] = "published"

\* C8: without reference data a calculation fails only for its threshold or
\* its task, and what it publishes follows the same rule: the number of
\* entries as a float.
C8_NoReferenceStillPublishes ==
    context.reference = None =>
        \A c \in Calcs :
            /\ pc[c] = "failed" => InvalidThreshold(c) \/ ~Registered(c)
            /\ pc[c] = "published" =>
                  get_metric_result(c).current.value = float(Entries(c))
            /\ ~Driven(c) /\ ~InvalidThreshold(c) /\ Registered(c) =>
                  pc[c] = "published"

\* C8 witness: a run without reference data published 2.0 for two entries.
C8_Witness ==
    /\ context.reference = None
    /\ pc["c1"] = "published"
    /\ Entries("c1") = 2
    /\ get_metric_result("c1").current.value = float(2)

C10_StepsOnlyReadInputs ==
    [][/\ metric' = metric
       /\ context' = context
       /\ \A c \in Calcs :
            /\ legacy_result[c] # None => legacy_result'[c] = legacy_result[c]
            /\ pc'[c] = pc[c] =>
                  /\ legacy_request'[c] = legacy_request[c]
                  /\ input_data'[c] = input_data[c]
                  /\ legacy_result'[c] = legacy_result[c]
                  /\ render'[c] = render[c]
                  /\ published'[c] = published[c]
                  /\ error'[c] = error[c]
            /\ pc[c] = "computed" /\ pc'[c] = "published" =>
                  Get(published'[c]).current.value = float(Entries(c))]_vars

\* C10 witness: the two calculations, on different declarations, were
\* stepped alternately and one published while the other was under way.
C10_Witness ==
    /\ metric["c1"] # metric["c2"]
    /\ pc["c1"] = "published"
    /\ pc["c2"] = "computed"
    /\ Entries("c1") # Entries("c2")

=============================================================================
